---- MODULE Spec2Model ----
(***************************************************************************)
(* Model of nmma/em/prior.py (create_prior_from_args,                      *)
(* inclination_prior_from_fit, ConditionalGaussianIotaGivenThetaCore) and  *)
(* of the driver nmma/em/create_svdmodel.py (main).                        *)
(*                                                                         *)
(* Three specifications share the module:                                  *)
(*   Spec      create_prior_from_args, statement by statement, followed by *)
(*             the evaluations of the conditional prior's condition        *)
(*             function on the returned prior set;                         *)
(*   SpecFold  the array computation of inclination_prior_from_fit from    *)
(*             the cos(inclination) grid to the Interped table (lines      *)
(*             109-126), over every density array prob_u of the bounds;    *)
(*   SpecSvd   the driver main() of create_svdmodel.py.                    *)
(*                                                                         *)
(* Conventions.  A Python Optional is a set: {} is None, {v} is v.  A      *)
(* float is an exact rational [num, den] or a scaled integer; angles are   *)
(* integers in centiradians, cosines and sines integers scaled by Scale.   *)
(* prior.py uses the name np without importing it and line 192 ends in a   *)
(* stray colon; the model reads np as numpy (as create_svdmodel.py imports *)
(* it) and line 192 as the call it spells.                                 *)
(***************************************************************************)
EXTENDS Integers, Sequences, FiniteSets, TLC

VARIABLES pc, args, base, priors, dictKind, err, steps, skymap, sel, row,
          kwargs, ret,
          prob_u, iota, prob_iota, iota_EM, prob_iota_EM, interped,
          sargs, effects

mainVars == <<args, base, priors, dictKind, err, steps, skymap, sel, row, kwargs, ret>>
foldVars == <<prob_u, iota, prob_iota, iota_EM, prob_iota_EM, interped>>
svdVars  == <<sargs, effects>>
vars     == <<pc, mainVars, foldVars, svdVars>>

(***************************************************************************)
(* Bounds of the model.                                                    *)
(***************************************************************************)
MaxEbvMax      == 2   \* args.Ebv_max ranges over 0..MaxEbvMax
MaxNSigma      == 2   \* args.conditional_gaussian_prior_N_sigma in 0..MaxNSigma
MaxCoord       == 1   \* args.ra, args.dec in None or 0..MaxCoord (degrees)
MaxInclination == 2   \* maximum of the base inclination prior in 1..MaxInclination
MaxThetaCore   == 2   \* realized thetaCore in 0..MaxThetaCore, unit 0.05 rad
NumPix         == 2   \* rows of the sky map
HalfGrid       == 2   \* the u grid has 2 * HalfGrid points (the code's has 2 * 500)
MaxProbU       == 2   \* prob_u of a grid point in 0..MaxProbU
MaxFiles       == 2   \* *.dat files under args.data_path in 0..MaxFiles
MaxDensity     == 1   \* PROBDENSITY of a row in 0..MaxDensity

(***************************************************************************)
(* Python values.                                                          *)
(***************************************************************************)
None == {}

\* bool(x) of an Optional number: None and 0 are false
TruthyNum(o) == o # {} /\ o # {0}

\* bool(x) of an Optional string: None and "" are false
TruthyStr(o) == o # {} /\ o # {""}

Val(o) == CHOOSE v \in o : TRUE

Rat(n, d) == [num |-> n, den |-> d]

NoPriors == [k \in {} |-> 0]

Put(d, k, v) == [x \in DOMAIN d \cup {k} |-> IF x = k THEN v ELSE d[x]]

(***************************************************************************)
(* The inputs of create_prior_from_args.                                   *)
(***************************************************************************)
Coords == {None} \cup {{c} : c \in 0..MaxCoord}

Args == [AnBa : BOOLEAN, use_Ebv : BOOLEAN, Ebv_max : 0..MaxEbvMax,
         conditional_gaussian_prior_thetaObs : BOOLEAN,
         conditional_gaussian_prior_N_sigma : 0..MaxNSigma,
         fits_file : {None, {"skymap.fits"}}, ra : Coords, dec : Coords]

\* the entries a prior file can hold for the names the code looks at
FileEntry(k) ==
    IF k = "Ebv" THEN {[kind |-> "Uniform", name |-> "Ebv", minimum |-> 0, maximum |-> 1]}
    ELSE IF k = "inclination_EM"
    THEN {[kind |-> "Sine", name |-> "inclination_EM", minimum |-> 0, maximum |-> m] :
            m \in 1..MaxInclination}
    ELSE {[kind |-> "DeltaFunction", name |-> k, peak |-> 1]}

PriorFiles ==
    UNION {[ks -> UNION {FileEntry(k) : k \in ks}] :
             ks \in SUBSET {"Ebv", "inclination_EM", "luminosity_distance"}}

BasePriors == {d \in PriorFiles : \A k \in DOMAIN d : d[k] \in FileEntry(k)}

SkyMaps == [1..NumPix -> 0..MaxDensity]

(***************************************************************************)
(* Exact rational arithmetic for the float expressions of the code.        *)
(***************************************************************************)
RatMul(a, b) == Rat(a.num * b.num, a.den * b.den)

RatInv(a) == Rat(a.den, a.num)

RatEq(a, b) == a.num * b.den = b.num * a.den

(***************************************************************************)
(* create_prior_from_args: the base prior set.                             *)
(***************************************************************************)
\* the PriorDict class the base prior is loaded into
BaseDictKind(a) ==
    IF a.AnBa THEN "bilby.core.prior.PriorDict+convert_mtot_mni"
    ELSE "bilby.gw.prior.PriorDict"

(***************************************************************************)
(* create_prior_from_args: setup for Ebv.                                  *)
(***************************************************************************)
Ebv_c_halfmissing(a) == RatInv(Rat(a.Ebv_max, 1))

\* Ebv_c = 1.0 / (0.5 * args.Ebv_max)
Ebv_c(a) == RatInv(RatMul(Rat(1, 2), Rat(a.Ebv_max, 1)))

\* the entry stored under "Ebv" when the base prior has none
EbvPrior(a) ==
    IF a.Ebv_max > 0 /\ a.use_Ebv
    THEN [kind |-> "Interped", name |-> "Ebv", minimum |-> 0, maximum |-> a.Ebv_max,
          xx |-> <<0, a.Ebv_max>>, yy |-> <<Ebv_c(a), Rat(0, 1)>>]
    ELSE [kind |-> "DeltaFunction", name |-> "Ebv", peak |-> 0]

EbvAugment_overwrite(p, a) == Put(p, "Ebv", EbvPrior(a))

\* if 'Ebv' not in priors: priors["Ebv"] = ...
EbvAugment(p, a) == IF "Ebv" \notin DOMAIN p THEN Put(p, "Ebv", EbvPrior(a)) ELSE p

(***************************************************************************)
(* ConditionalGaussianIotaGivenThetaCore.                                  *)
(***************************************************************************)
\* __init__: mu=0, sigma=1, the given bounds and name, the dependency and N_sigma
ConditionalGaussianIotaGivenThetaCore(minimum, maximum, name, N_sigma) ==
    [kind |-> "ConditionalGaussianIotaGivenThetaCore", name |-> name,
     minimum |-> minimum, maximum |-> maximum, mu |-> 0, sigma |-> Rat(1, 1),
     required_variables |-> <<"thetaCore">>, N_sigma |-> N_sigma]

condition_function_default(self, kw) ==
    IF self.N_sigma = 0 THEN [status |-> "ZeroDivisionError", sigma |-> None]
    ELSE IF self.required_variables[1] \notin DOMAIN kw
    THEN [status |-> "ok", sigma |-> {self.sigma}]
    ELSE [status |-> "ok",
          sigma |-> {RatMul(Rat(1, self.N_sigma), Rat(kw[self.required_variables[1]], 1))}]

condition_function_times(self, kw) ==
    IF self.N_sigma = 0 THEN [status |-> "ZeroDivisionError", sigma |-> None]
    ELSE IF self.required_variables[1] \notin DOMAIN kw
    THEN [status |-> "KeyError", sigma |-> None]
    ELSE [status |-> "ok",
          sigma |-> {RatMul(Rat(self.N_sigma, 1), Rat(kw[self.required_variables[1]], 1))}]

\* _condition_function: dict(sigma=(1.0 / self.N_sigma) * kwargs["thetaCore"]);
\* the quotient is evaluated before the lookup
condition_function(self, kw) ==
    IF self.N_sigma = 0 THEN [status |-> "ZeroDivisionError", sigma |-> None]
    ELSE IF self.required_variables[1] \notin DOMAIN kw
    THEN [status |-> "KeyError", sigma |-> None]
    ELSE [status |-> "ok",
          sigma |-> {RatMul(Rat(1, self.N_sigma), Rat(kw[self.required_variables[1]], 1))}]

\* the substitution of lines 176-188 on a prior set that has an inclination prior
ConditionalSubstitute(p, a) ==
    LET original_iota_prior == p["inclination_EM"]
    IN  Put(p, "inclination_EM",
            ConditionalGaussianIotaGivenThetaCore(
                original_iota_prior.minimum, original_iota_prior.maximum,
                original_iota_prior.name, a.conditional_gaussian_prior_N_sigma))

(***************************************************************************)
(* inclination_prior_from_fit: the sky position.                           *)
(***************************************************************************)
\* np.argmax: the first index of the maximum
ArgMax(m) == CHOOSE i \in DOMAIN m :
                 /\ \A j \in DOMAIN m : m[j] <= m[i]
                 /\ \A j \in DOMAIN m : j < i => m[j] < m[i]

\* if args.ra and args.dec
UseInputLocation(a) == TruthyNum(a.ra) /\ TruthyNum(a.dec)

(***************************************************************************)
(* The steps of create_prior_from_args.                                    *)
(***************************************************************************)
NoRet == [status |-> "none", sigma |-> None, given |-> NoPriors]

Init ==
    /\ pc = "load"
    /\ args \in Args
    /\ base = NoPriors
    /\ priors = NoPriors
    /\ dictKind = "none"
    /\ err = "none"
    /\ steps = << >>
    /\ skymap = << >>
    /\ sel = "none"
    /\ row = None
    /\ kwargs = NoPriors
    /\ ret = NoRet
    /\ prob_u = << >> /\ iota = << >> /\ prob_iota = << >> /\ iota_EM = << >>
    /\ prob_iota_EM = << >> /\ interped = None
    /\ sargs = None /\ effects = << >>

Raise(e) == pc' = "raised" /\ err' = e

\* lines 132-154
LoadBase ==
    /\ pc = "load"
    /\ \E b \in BasePriors : base' = b /\ priors' = b
    /\ dictKind' = BaseDictKind(args)
    /\ steps' = Append(steps, "load")
    /\ pc' = "ebv"
    /\ UNCHANGED <<args, err, skymap, sel, row, kwargs, ret, foldVars, svdVars>>

\* lines 156-171
EbvStep ==
    /\ pc = "ebv"
    /\ priors' = EbvAugment(priors, args)
    /\ steps' = Append(steps, "ebv")
    /\ pc' = "cond"
    /\ UNCHANGED <<args, base, dictKind, err, skymap, sel, row, kwargs, ret,
                   foldVars, svdVars>>

\* lines 175-189
CondStep ==
    /\ pc = "cond"
    /\ IF args.conditional_gaussian_prior_thetaObs
       THEN IF "inclination_EM" \notin DOMAIN priors
            THEN /\ Raise("KeyError")
                 /\ UNCHANGED <<priors, dictKind, steps>>
            ELSE /\ priors' = ConditionalSubstitute(priors, args)
                 /\ dictKind' = "bilby.gw.prior.ConditionalPriorDict"
                 /\ steps' = Append(steps, "cond")
                 /\ pc' = "fit"
                 /\ UNCHANGED err
       ELSE /\ pc' = "fit"
            /\ UNCHANGED <<priors, dictKind, steps, err>>
    /\ UNCHANGED <<args, base, skymap, sel, row, kwargs, ret, foldVars, svdVars>>

\* lines 191-194 with no fits_file: return priors
Return ==
    /\ pc = "fit"
    /\ ~TruthyStr(args.fits_file)
    /\ pc' = "returned"
    /\ UNCHANGED <<mainVars, foldVars, svdVars>>

\* lines 191-192 and 71-96: the call, read_sky_map and the choice of the sky position
FitSelect ==
    /\ pc = "fit"
    /\ TruthyStr(args.fits_file)
    /\ steps' = Append(steps, "fit")
    /\ \E m \in SkyMaps : skymap' = m
    /\ IF UseInputLocation(args)
       THEN sel' = "input" /\ row' = row
       ELSE sel' = "maP" /\ row' = {ArgMax(skymap')}
    /\ pc' = "fit_interp"
    /\ UNCHANGED <<args, base, priors, dictKind, err, kwargs, ret, foldVars, svdVars>>

\* lines 99-107: row[...] is read when the generator is unpacked
FitInterp ==
    /\ pc = "fit_interp"
    /\ IF row = None THEN Raise("NameError") ELSE pc' = "fit_probu" /\ UNCHANGED err
    /\ UNCHANGED <<args, base, priors, dictKind, steps, skymap, sel, row, kwargs, ret,
                   foldVars, svdVars>>

\* lines 109-112: priors['luminosity_distance'].peak, then the product of an
\* array with dist_norm, which is the interp1d object itself and not its values
FitProbU ==
    /\ pc = "fit_probu"
    /\ IF "luminosity_distance" \notin DOMAIN priors
       THEN Raise("KeyError")
       ELSE Raise("TypeError")
    /\ UNCHANGED <<args, base, priors, dictKind, steps, skymap, sel, row, kwargs, ret,
                   foldVars, svdVars>>

(***************************************************************************)
(* The returned prior set in use: the sampler resolves thetaCore and       *)
(* evaluates the condition function of the conditional inclination prior.  *)
(***************************************************************************)
HasConditional ==
    /\ pc = "returned"
    /\ "inclination_EM" \in DOMAIN priors
    /\ priors["inclination_EM"].kind = "ConditionalGaussianIotaGivenThetaCore"

ResolveThetaCore ==
    /\ HasConditional
    /\ \E v \in 0..MaxThetaCore : kwargs' = Put(kwargs, "thetaCore", v)
    /\ UNCHANGED <<pc, args, base, priors, dictKind, err, steps, skymap, sel, row, ret,
                   foldVars, svdVars>>

EvalCondition ==
    /\ HasConditional
    /\ LET r == condition_function(priors["inclination_EM"], kwargs)
       IN  ret' = [status |-> r.status, sigma |-> r.sigma, given |-> kwargs]
    /\ UNCHANGED <<pc, args, base, priors, dictKind, err, steps, skymap, sel, row, kwargs,
                   foldVars, svdVars>>

Next ==
    \/ LoadBase
    \/ EbvStep
    \/ CondStep
    \/ Return
    \/ FitSelect
    \/ FitInterp
    \/ FitProbU
    \/ ResolveThetaCore
    \/ EvalCondition

Spec == Init /\ [][Next]_vars

(***************************************************************************)
(* inclination_prior_from_fit, lines 109-126: from the cos(inclination)    *)
(* grid to the Interped table.  Fixed point: cosines and sines are scaled  *)
(* by Scale, angles are in centiradians.                                   *)
(***************************************************************************)
Scale == 100 * 100

PiCenti == 314

HalfPiCenti == 157

\* the grid has an even number of points, as the code's 1000
NumU == 2 * HalfGrid

Abs(x) == IF x < 0 THEN 0 - x ELSE x

\* np.linspace(-1, 1, NumU)[i], scaled by Scale (rounded towards zero)
U(i) == LET n == 2 * (i - 1) - (NumU - 1)
        IN  IF n < 0 THEN 0 - ((Scale * (0 - n)) \div (NumU - 1))
            ELSE (Scale * n) \div (NumU - 1)

\* cos of t centiradians, 0 <= t <= pi/2, by its Taylor series
CosCenti(t) ==
    LET t2 == t * t
        a1 == (Scale * t2) \div (Scale * 2)
        a2 == (a1 * t2) \div (Scale * 12)
        a3 == (a2 * t2) \div (Scale * 30)
        a4 == (a3 * t2) \div (Scale * 56)
    IN  Scale - a1 + a2 - a3 + a4

\* np.arccos in centiradians: the angle of [0, pi] whose cosine is nearest to c
ArcCos(c) ==
    LET acute(x) == CHOOSE t \in 0..HalfPiCenti :
                        \A s \in 0..HalfPiCenti :
                            \/ Abs(CosCenti(t) - x) < Abs(CosCenti(s) - x)
                            \/ Abs(CosCenti(t) - x) = Abs(CosCenti(s) - x) /\ t <= s
    IN  IF c >= 0 THEN acute(c) ELSE PiCenti - acute(0 - c)

\* np.sin of t centiradians, 0 <= t <= pi, by its Taylor series
Sin(t) ==
    LET x  == IF t > HalfPiCenti THEN PiCenti - t ELSE t
        x2 == x * x
        s0 == x * 100
        s1 == (s0 * x2) \div (Scale * 6)
        s2 == (s1 * x2) \div (Scale * 20)
        s3 == (s2 * x2) \div (Scale * 42)
        s4 == (s3 * x2) \div (Scale * 72)
    IN  s0 - s1 + s2 - s3 + s4

\* iota = np.arccos(u)
IotaGrid == [i \in 1..NumU |-> ArcCos(U(i))]

Reverse(s) == [k \in 1..Len(s) |-> s[Len(s) + 1 - k]]

\* a[mask]: the elements of a at the indices of idx, in increasing order
RECURSIVE Take(_, _, _)
Take(a, idx, from) ==
    IF from > Len(a) THEN << >>
    ELSE IF from \in idx THEN <<a[from]>> \o Take(a, idx, from + 1)
    ELSE Take(a, idx, from + 1)

\* iota < np.pi / 2
LtMask(io) == {i \in DOMAIN io : io[i] < HalfPiCenti}

\* iota >= np.pi / 2
GeMask(io) == {i \in DOMAIN io : io[i] >= HalfPiCenti}

Fold_unreversed(lt, gt) == [k \in 1..Len(lt) |-> lt[k] + gt[k]]

\* prob_lt_pi2 + prob_gt_pi2[::-1]
Fold(lt, gt) == [k \in 1..Len(lt) |-> lt[k] + Reverse(gt)[k]]

\* twice np.trapz(y, x)
RECURSIVE TrapzTwice(_, _, _)
TrapzTwice(y, x, k) ==
    IF k >= Len(x) THEN 0
    ELSE (x[k + 1] - x[k]) * (y[k] + y[k + 1]) + TrapzTwice(y, x, k + 1)

InitFold ==
    /\ pc = "f_jacobian"
    /\ prob_u \in [1..NumU -> 0..MaxProbU]
    /\ iota = << >> /\ prob_iota = << >> /\ iota_EM = << >>
    /\ prob_iota_EM = << >> /\ interped = None
    /\ args = None /\ base = NoPriors /\ priors = NoPriors /\ dictKind = "none"
    /\ err = "none" /\ steps = << >> /\ skymap = << >> /\ sel = "none" /\ row = None
    /\ kwargs = NoPriors /\ ret = NoRet
    /\ sargs = None /\ effects = << >>

\* lines 113-114
FoldJacobian ==
    /\ pc = "f_jacobian"
    /\ iota' = IotaGrid
    /\ prob_iota' = [i \in 1..NumU |-> prob_u[i] * Sin(iota'[i])]
    /\ pc' = "f_split"
    /\ UNCHANGED <<prob_u, iota_EM, prob_iota_EM, interped, mainVars, svdVars>>

\* lines 118-121; arrays of different lengths cannot be added
FoldSplit ==
    /\ pc = "f_split"
    /\ LET iota_lt_pi2 == Take(iota, LtMask(iota), 1)
           prob_lt_pi2 == Take(prob_iota, LtMask(iota), 1)
           prob_gt_pi2 == Take(prob_iota, GeMask(iota), 1)
       IN  IF Len(prob_lt_pi2) # Len(prob_gt_pi2)
           THEN /\ Raise("ValueError")
                /\ UNCHANGED <<iota_EM, prob_iota_EM>>
           ELSE /\ iota_EM' = iota_lt_pi2
                /\ prob_iota_EM' = Fold(prob_lt_pi2, prob_gt_pi2)
                /\ pc' = "f_normalize"
                /\ UNCHANGED err
    /\ UNCHANGED <<prob_u, iota, prob_iota, interped, args, base, priors, dictKind,
                   steps, skymap, sel, row, kwargs, ret, svdVars>>

\* line 124: prob_iota /= np.trapz(iota_EM, prob_iota_EM), i.e. y = iota_EM and
\* x = prob_iota_EM; a zero divisor gives inf or nan, no exception
FoldNormalize ==
    /\ pc = "f_normalize"
    /\ prob_iota' = [i \in 1..NumU |->
                       Rat(2 * prob_iota[i], TrapzTwice(iota_EM, prob_iota_EM, 1))]
    /\ pc' = "f_build"
    /\ UNCHANGED <<prob_u, iota, iota_EM, prob_iota_EM, interped, mainVars, svdVars>>

\* line 126
FoldBuild ==
    /\ pc = "f_build"
    /\ interped' = {[kind |-> "Interped", xx |-> iota_EM, yy |-> prob_iota_EM]}
    /\ pc' = "f_done"
    /\ UNCHANGED <<prob_u, iota, prob_iota, iota_EM, prob_iota_EM, mainVars, svdVars>>

NextFold ==
    \/ FoldJacobian
    \/ FoldSplit
    \/ FoldNormalize
    \/ FoldBuild

SpecFold == InitFold /\ [][NextFold]_vars

(***************************************************************************)
(* create_svdmodel.py: main().                                             *)
(***************************************************************************)
\* model_parameters.__dict__: two model functions and an imported module
model_parameters == [Bu2019lm |-> "function", Ka2017 |-> "function", np |-> "module"]

\* {k: v for k, v in model_parameters.__dict__.items() if inspect.isfunction(v)}
MODEL_FUNCTIONS == {k \in DOMAIN model_parameters : model_parameters[k] = "function"}

SvdArgs == [model : {"Bu2019lm", "Ka2017", "np", "Xx2000"},
            interpolation_type : {"sklearn_gp", "tensorflow", "bogus"},
            plot : BOOLEAN, data_files : 0..MaxFiles]

InitSvd ==
    /\ pc = "s_check"
    /\ sargs \in {{a} : a \in SvdArgs}
    /\ effects = << >>
    /\ err = "none"
    /\ args = None /\ base = NoPriors /\ priors = NoPriors /\ dictKind = "none"
    /\ steps = << >> /\ skymap = << >> /\ sel = "none" /\ row = None
    /\ kwargs = NoPriors /\ ret = NoRet
    /\ prob_u = << >> /\ iota = << >> /\ prob_iota = << >> /\ iota_EM = << >>
    /\ prob_iota_EM = << >> /\ interped = None

SvdUnchanged == UNCHANGED <<sargs, args, base, priors, dictKind, steps, skymap, sel, row,
                            kwargs, ret, foldVars>>

SvdCheckModel_afterglob ==
    /\ pc = "s_check"
    /\ effects' = Append(effects, "glob")
    /\ IF Val(sargs).model \notin MODEL_FUNCTIONS
       THEN Raise("ValueError")
       ELSE pc' = "s_read" /\ UNCHANGED err
    /\ SvdUnchanged

\* lines 88-95
SvdCheckModel ==
    /\ pc = "s_check"
    /\ IF Val(sargs).model \notin MODEL_FUNCTIONS
       THEN Raise("ValueError")
       ELSE pc' = "s_glob" /\ UNCHANGED err
    /\ UNCHANGED effects
    /\ SvdUnchanged

\* line 97
SvdGlob ==
    /\ pc = "s_glob"
    /\ effects' = Append(effects, "glob")
    /\ pc' = "s_read"
    /\ UNCHANGED err
    /\ SvdUnchanged

\* lines 98-99
SvdReadFiles ==
    /\ pc = "s_read"
    /\ effects' = effects \o <<"read_files", "model_function">>
    /\ pc' = "s_train"
    /\ UNCHANGED err
    /\ SvdUnchanged

\* lines 101-110
SvdTrain ==
    /\ pc = "s_train"
    /\ effects' = Append(effects, "SVDTrainingModel")
    /\ pc' = "s_lcmodel"
    /\ UNCHANGED err
    /\ SvdUnchanged

\* lines 112-119
SvdLightCurveModel ==
    /\ pc = "s_lcmodel"
    /\ effects' = Append(effects, "SVDLightCurveModel")
    /\ pc' = "s_plot"
    /\ UNCHANGED err
    /\ SvdUnchanged

\* lines 120-178
SvdPlot ==
    /\ pc = "s_plot"
    /\ effects' = IF Val(sargs).plot
                  THEN effects \o <<"generate_lightcurve", "savefig">>
                  ELSE effects
    /\ pc' = "s_done"
    /\ UNCHANGED err
    /\ SvdUnchanged

NextSvd ==
    \/ SvdCheckModel
    \/ SvdGlob
    \/ SvdReadFiles
    \/ SvdTrain
    \/ SvdLightCurveModel
    \/ SvdPlot

SpecSvd == InitSvd /\ [][NextSvd]_vars

(***************************************************************************)
(* Properties of create_prior_from_args (Spec).                            *)
(***************************************************************************)
Terminated == pc \in {"returned", "raised"}

AfterEbv == pc \notin {"load", "ebv"}

\* the construction steps run so far are in the fixed order, the optional ones
\* only when their flag is set
StepsInOrder ==
    /\ \E n \in 0..4 : steps = SubSeq(
           <<"load", "ebv">>
           \o (IF args.conditional_gaussian_prior_thetaObs THEN <<"cond">> ELSE << >>)
           \o (IF TruthyStr(args.fits_file) THEN <<"fit">> ELSE << >>), 1, n)

\* C1: the steps run in the order load, Ebv, conditional substitution (if
\* requested), sky-map fit (if fits_file is set), and every call with fits_file
\* set whose prior file has the entries the steps read ends by returning a prior
\* set whose inclination_EM entry is the Interped built from the sky map.
C1_FitInclinationReturned ==
    /\ StepsInOrder
    /\ (Terminated /\ TruthyStr(args.fits_file) /\ err # "KeyError")
         => /\ pc = "returned"
            /\ "inclination_EM" \in DOMAIN priors
            /\ priors["inclination_EM"].kind = "Interped"

\* C2: when the base prior has no Ebv entry, use_Ebv=False inserts a
\* distribution whose support is the point 0, and use_Ebv=True with Ebv_max > 0
\* inserts a table on [0, Ebv_max] whose density falls linearly from 2/Ebv_max
\* at 0 to 0 at Ebv_max, with unit area.
C2_EbvPrior ==
    (AfterEbv /\ "Ebv" \notin DOMAIN base) =>
        /\ ~args.use_Ebv =>
              /\ priors["Ebv"].kind = "DeltaFunction"
              /\ priors["Ebv"].peak = 0
        /\ (args.use_Ebv /\ args.Ebv_max > 0) =>
              LET e == priors["Ebv"] IN
              /\ e.kind = "Interped"
              /\ e.minimum = 0 /\ e.maximum = args.Ebv_max
              /\ e.xx = <<0, args.Ebv_max>>
              /\ e.yy[1].num * args.Ebv_max = 2 * e.yy[1].den
              /\ e.yy[2].num = 0
              /\ e.yy[1].num * e.yy[2].den > e.yy[2].num * e.yy[1].den
              /\ (e.xx[2] - e.xx[1]) * (e.yy[1].num * e.yy[2].den + e.yy[2].num * e.yy[1].den)
                   = 2 * e.yy[1].den * e.yy[2].den

C2_Witness ==
    /\ pc = "cond"
    /\ "Ebv" \notin DOMAIN base
    /\ args.use_Ebv /\ args.Ebv_max = 2
    /\ priors["Ebv"].kind = "Interped"

\* C3: the Ebv step never overwrites: an Ebv entry of the base prior is kept
\* as it is for every use_Ebv and Ebv_max, and after the step the prior set has
\* an Ebv entry.
C3_EbvInsertOnly ==
    AfterEbv =>
        /\ "Ebv" \in DOMAIN priors
        /\ "Ebv" \in DOMAIN base => priors["Ebv"] = base["Ebv"]
        /\ \A k \in DOMAIN base : k \in DOMAIN priors

C3_Witness ==
    /\ pc = "cond"
    /\ "Ebv" \in DOMAIN base
    /\ args.use_Ebv /\ args.Ebv_max > 0
    /\ priors["Ebv"].kind = "Uniform"

\* C4: the conditional inclination prior declares thetaCore as its required
\* variable, and an evaluation of its condition function without a thetaCore
\* value ends in an error and yields no sigma.
C4_ThetaCoreRequired ==
    /\ HasConditional => priors["inclination_EM"].required_variables = <<"thetaCore">>
    /\ (ret.status # "none" /\ "thetaCore" \notin DOMAIN ret.given) =>
          /\ ret.status \in {"KeyError", "ZeroDivisionError"}
          /\ ret.sigma = None

C4_Witness ==
    /\ HasConditional
    /\ ret.status = "KeyError"
    /\ "thetaCore" \notin DOMAIN ret.given
    /\ args.conditional_gaussian_prior_N_sigma > 0

\* C5: every evaluation of the condition function that returns gives
\* sigma = thetaCore / N_sigma for the thetaCore it was called with, and the
\* conditional prior has mean 0 and the minimum and maximum of the prior it
\* replaced.
C5_SigmaIsThetaCoreOverNSigma ==
    /\ ret.status = "ok" =>
          \A s \in ret.sigma :
              /\ s.den # 0
              /\ s.num * args.conditional_gaussian_prior_N_sigma
                   = ret.given["thetaCore"] * s.den
    /\ HasConditional =>
          /\ priors["inclination_EM"].mu = 0
          /\ priors["inclination_EM"].minimum = base["inclination_EM"].minimum
          /\ priors["inclination_EM"].maximum = base["inclination_EM"].maximum
          /\ priors["inclination_EM"].N_sigma = args.conditional_gaussian_prior_N_sigma

\* thetaCore = 0.1 (two units of 0.05) and N_sigma = 2 give sigma = 0.05 (one unit)
C5_Witness ==
    /\ HasConditional
    /\ ret.status = "ok"
    /\ ret.given["thetaCore"] = 2
    /\ args.conditional_gaussian_prior_N_sigma = 2
    /\ \A s \in ret.sigma : RatEq(s, Rat(1, 1))
    /\ base["inclination_EM"].maximum = 2

\* C9: in both sky-position branches the sky-map row is selected when the
\* interpolation of its *_SAMPLES profiles is reached, and in the maP branch it
\* is the row of the maximum-probability pixel.
C9_RowSelected ==
    pc = "fit_interp" =>
        /\ row # None
        /\ sel = "maP" => row = {ArgMax(skymap)}

\* C10: the input sky position is the one selected whenever both a right
\* ascension and a declination are supplied, 0 included; the maP pixel is used
\* only when one of them is not supplied.
C10_InputLocationUsed ==
    sel # "none" => (sel = "input" <=> (args.ra # None /\ args.dec # None))

(***************************************************************************)
(* Properties of the folding (SpecFold).                                   *)
(***************************************************************************)
\* the index of the grid point with the mirrored cosine
Mirror(i) == NumU + 1 - i

\* C6: the table handed to Interped is normalized: it integrates to 1 over
\* [0, pi/2] (densities are scaled by Scale, angles by 100).
C6_TableNormalized ==
    (pc = "f_done" /\ \E k \in DOMAIN prob_iota_EM : prob_iota_EM[k] > 0) =>
        \A t \in interped : Abs(TrapzTwice(t.yy, t.xx, 1)) = 2 * 100 * Scale

\* C7: the two halves of the grid have equal length, and the k-th folded value
\* is the unfolded density at inclination iota_EM[k] plus that at its mirror
\* pi - iota_EM[k], the grid point of opposite cosine; for a prob_u symmetric
\* about cos = 0 it is twice the unfolded value.
C7_FoldPairsMirrored ==
    pc = "f_normalize" =>
        /\ Cardinality(LtMask(iota)) = Cardinality(GeMask(iota))
        /\ Len(iota_EM) = HalfGrid /\ Len(prob_iota_EM) = HalfGrid
        /\ \A k \in 1..Len(iota_EM) :
              LET i == HalfGrid + k IN
              /\ iota[i] = iota_EM[k]
              /\ U(Mirror(i)) = 0 - U(i)
              /\ iota[Mirror(i)] = PiCenti - iota[i]
              /\ prob_iota_EM[k] = prob_iota[i] + prob_iota[Mirror(i)]
              /\ (\A j \in 1..NumU : prob_u[j] = prob_u[Mirror(j)])
                    => prob_iota_EM[k] = 2 * prob_iota[i]

C7_Witness ==
    /\ pc = "f_normalize"
    /\ prob_u[HalfGrid] = 2 /\ prob_u[HalfGrid + 1] = 1
    /\ prob_iota_EM[1] = prob_iota[HalfGrid] + prob_iota[HalfGrid + 1]
    /\ prob_iota[HalfGrid] > prob_iota[HalfGrid + 1]
    /\ prob_iota[HalfGrid + 1] > 0

(***************************************************************************)
(* Properties of the driver (SpecSvd).                                     *)
(***************************************************************************)
\* C8: a model name that is not a function of model_parameters raises
\* ValueError before anything is globbed, read, constructed or written, and the
\* run ends there.
C8_UnknownModelRaisesFirst ==
    \A a \in sargs :
        (a.model \notin DOMAIN model_parameters \/ model_parameters[a.model] # "function") =>
            /\ effects = << >>
            /\ pc \in {"s_check", "raised"}
            /\ pc = "raised" => err = "ValueError"
            /\ pc = "raised" => ~ENABLED NextSvd

C8_Witness ==
    /\ pc = "raised"
    /\ err = "ValueError"
    /\ \A a \in sargs : a.model = "np"
    /\ effects = << >>

====
